---- MODULE Spec2Model ----
(***************************************************************************)
(* Model of the job coordinator and progress broadcaster of                *)
(* video-transcriber (app/services/task_manager.py): the pipeline run of   *)
(* a job (_process_task), the status-update choke point (_update_status),  *)
(* the intra-stage update scheduled by the download worker thread          *)
(* (_notify), the subscriber registry (subscribe / _publish /              *)
(* _cleanup_subscribers) and the stream sessions (sse_stream).             *)
(*                                                                         *)
(* Every await of the source is a step boundary; the code between two      *)
(* awaits runs on the event loop without interruption and is one action.   *)
(* A database transaction takes effect at its commit.                      *)
(*                                                                         *)
(* FILE_STORAGE_STRATEGY and CLEAN_TMP_FILE are read from the settings by  *)
(* task_manager.py; app/config.py does not declare them, so their values   *)
(* are taken as given by the deployment: any value, fixed for a run.       *)
(***************************************************************************)
EXTENDS Integers, Sequences, FiniteSets, TLC

\* The number of jobs created, and the number of stream sessions that may be
\* opened (in runs with every kind of failure, and in runs without).
MaxJobs == 1
\* The number of jobs created in the runs that look at one job next to
\* another.
IsoJobs == 2
Jobs == 1..(IF MaxJobs > IsoJobs THEN MaxJobs ELSE IsoJobs)
MaxStreams == 1
HubStreams == 2
\* The number of times a download may call its progress callback.
MaxCallbacks == 2
Streams == 1..(IF MaxStreams > HubStreams THEN MaxStreams ELSE HubStreams)

\* Python's None, for optional strings.
NoneV == "<None>"
\* status of a row that was not inserted
Absent == "absent"
Terminal == {"completed", "failed"}

\* str(exc) of an error raised by a stage: some text, or the empty string.
StageErrors == {"X", ""}
\* str(exc) of an error raised by the durable store / by the object store client.
DbError == "db unavailable"
UrlError == "object store unavailable"

VARIABLES
    strategy,      \* settings.FILE_STORAGE_STRATEGY.lower(): "local" or "minio"
    cleanTmp,      \* settings.CLEAN_TMP_FILE
    task,          \* video_ts_task rows, by job: [status, progress, error]
    details,       \* number of video_ts_detail rows, by job
    localResults,  \* TaskManager._local_results: does it hold the job
    tmpdir,        \* does temp_root of the job exist
    subscribers,   \* TaskManager._subscribers: job -> list of queues (by stream)
    queue,         \* the asyncio.Queue each stream created, by stream
    pc,            \* position of _process_task, by job
    uph,           \* position inside the _update_status the pipeline awaits
    exc,           \* str(exc) of the exception caught by _process_task
    raisedAt,      \* the position of _process_task that exception came from
    lastBucket,    \* the nonlocal last_bucket of _notify
    callbacks,     \* calls of progress_cb made by the download that is running
    intra,         \* position of the coroutine _notify scheduled on the loop
    published,     \* every message handed to _publish, by job, in order
    spc,           \* position of each sse_stream generator
    sjob,          \* the task_id of each sse_stream
    sopen,         \* the durable status of the job when the stream was opened
    emitted        \* the events each sse_stream has yielded, in order

vars == <<strategy, cleanTmp, task, details, localResults, tmpdir, subscribers,
          queue, pc, uph, exc, raisedAt, lastBucket, callbacks, intra, published,
          spc, sjob, sopen, emitted>>

cfgVars == <<strategy, cleanTmp>>
dbVars == <<task, details>>
hubVars == <<subscribers, queue, published>>
runVars == <<pc, uph, exc, raisedAt, lastBucket, callbacks, intra, localResults,
            tmpdir>>
streamVars == <<spc, sjob, sopen, emitted>>

Range(f) == {f[i] : i \in DOMAIN f}

\* Python truthiness of an Optional[str]
Truthy(m) == m # NoneV /\ m # ""

----------------------------------------------------------------------------
\* (the message put into the queue of every stream, registered or not)
PublishToEveryQueue(j, m) ==
    /\ queue' = [s \in Streams |-> Append(queue[s], m)]
    /\ published' = [published EXCEPT ![j] = Append(@, m)]

\* (the message put at the back of the first registered queue and at the
\* front of the others)
PublishInDifferentOrders(j, m) ==
    /\ queue' = [s \in Streams |->
                    IF s \in Range(subscribers[j])
                    THEN IF s = subscribers[j][1] THEN Append(queue[s], m)
                                                  ELSE <<m>> \o queue[s]
                    ELSE queue[s]]
    /\ published' = [published EXCEPT ![j] = Append(@, m)]

\* _publish: put the message into every queue registered for the job.
Publish(j, m) ==
    /\ queue' = [s \in Streams |->
                    IF s \in Range(subscribers[j]) THEN Append(queue[s], m)
                                                   ELSE queue[s]]
    /\ published' = [published EXCEPT ![j] = Append(@, m)]

\* (the lists of all the jobs dropped)
CleanupEveryJob(j) == [k \in Jobs |-> <<>>]

\* _cleanup_subscribers: drop the whole list of the job.
CleanupSubscribers(j) == [subscribers EXCEPT ![j] = <<>>]

\* subscribe: a new queue appended to the list of the job.
Subscribe(j, s) == [subscribers EXCEPT ![j] = Append(@, s)]

----------------------------------------------------------------------------
\* The arguments of the _update_status calls of _process_task, by position,
\* and of the call _notify schedules.
UpdatePcs == {"upd5", "upd25", "upd50", "upd80", "upd100", "updFail"}

\* (the first update without its status)
UpdateArgsNoProcessing(p, e) ==
    CASE p = "upd5"    -> [status |-> NoneV,        progress |-> {5},   message |-> "start"]
      [] p = "upd25"   -> [status |-> NoneV,        progress |-> {25},  message |-> "downloaded"]
      [] p = "upd50"   -> [status |-> NoneV,        progress |-> {50},  message |-> "audio ready"]
      [] p = "upd80"   -> [status |-> NoneV,        progress |-> {80},  message |-> "transcribed"]
      [] p = "upd100"  -> [status |-> "completed",  progress |-> {100}, message |-> "done"]
      [] p = "updFail" -> [status |-> "failed",     progress |-> {},    message |-> e]

\* (the values of the checkpoints after the extraction and after the
\* transcription exchanged)
UpdateArgsExchanged(p, e) ==
    CASE p = "upd5"    -> [status |-> "processing", progress |-> {5},   message |-> "start"]
      [] p = "upd25"   -> [status |-> NoneV,        progress |-> {25},  message |-> "downloaded"]
      [] p = "upd50"   -> [status |-> NoneV,        progress |-> {80},  message |-> "audio ready"]
      [] p = "upd80"   -> [status |-> NoneV,        progress |-> {50},  message |-> "transcribed"]
      [] p = "upd100"  -> [status |-> "completed",  progress |-> {100}, message |-> "done"]
      [] p = "updFail" -> [status |-> "failed",     progress |-> {},    message |-> e]

UpdateArgs(p, e) ==
    CASE p = "upd5"    -> [status |-> "processing", progress |-> {5},   message |-> "start"]
      [] p = "upd25"   -> [status |-> NoneV,        progress |-> {25},  message |-> "downloaded"]
      [] p = "upd50"   -> [status |-> NoneV,        progress |-> {50},  message |-> "audio ready"]
      [] p = "upd80"   -> [status |-> NoneV,        progress |-> {80},  message |-> "transcribed"]
      [] p = "upd100"  -> [status |-> "completed",  progress |-> {100}, message |-> "done"]
      [] p = "updFail" -> [status |-> "failed",     progress |-> {},    message |-> e]

NotifyArgs == [status |-> NoneV, progress |-> {10}, message |-> "downloading"]

\* Where _process_task goes when the awaited _update_status returns.
AfterUpdate(p) ==
    CASE p = "upd5"    -> "dl"
      [] p = "upd25"   -> "ex"
      [] p = "upd50"   -> "tr"
      [] p = "upd80"   -> "store"
      [] p = "upd100"  -> "fin"
      [] p = "updFail" -> "fin"

\* (a call without progress writes 0, and every call writes the message
\* as error_message)
ApplyFieldsOverwriting(row, a) ==
    [status   |-> IF Truthy(a.status) THEN a.status ELSE row.status,
     progress |-> IF a.progress # {} THEN CHOOSE p \in a.progress : TRUE ELSE 0,
     error    |-> a.message]

\* _update_status, the fields written to the row.
ApplyFields(row, a) ==
    [status   |-> IF Truthy(a.status) THEN a.status ELSE row.status,
     progress |-> IF a.progress # {} THEN CHOOSE p \in a.progress : TRUE
                                     ELSE row.progress,
     error    |-> IF a.status = "failed" /\ Truthy(a.message) THEN a.message
                                                              ELSE row.error]

\* _fetch_details: the rows of the job, plus the in-memory result when local.
FetchDetails(j) ==
    details[j] + (IF strategy = "local" /\ localResults[j] THEN 1 ELSE 0)

\* _update_status, result_files of the message (0 stands for None).
ResultFiles(j) ==
    FetchDetails(j) + (IF strategy = "local" /\ localResults[j] THEN 1 ELSE 0)

\* (the message built from the row as it was selected, before the write)
BuildMessageFromSelected(j, row, a) ==
    [status   |-> task[j].status,
     progress |-> task[j].progress,
     message  |-> IF a.status = "failed" /\ ~Truthy(a.message) THEN row.error
                                                               ELSE a.message,
     files    |-> ResultFiles(j)]

\* _update_status, the SSEMessage built from the refreshed row.
BuildMessage(j, row, a) ==
    [status   |-> row.status,
     progress |-> row.progress,
     message  |-> IF a.status = "failed" /\ ~Truthy(a.message) THEN row.error
                                                               ELSE a.message,
     files    |-> ResultFiles(j)]

\* Building the message calls the object store client (resolve_file_url)
\* only under minio and only when the job has detail rows.
BuildCallsObjectStore(j) == strategy = "minio" /\ details[j] > 0

\* (the exception of a stage recorded but swallowed: the run goes on with
\* the update that follows the stage)
RaiseAndGoOn(j, e) ==
    /\ pc' = [pc EXCEPT ![j] = CASE pc[j] = "dl1"   -> "upd25"
                                 [] pc[j] = "ex"    -> "upd50"
                                 [] pc[j] = "tr"    -> "upd80"
                                 [] pc[j] = "store" -> "upd100"
                                 [] OTHER           -> "fin"]
    /\ uph' = [uph EXCEPT ![j] = "load"]
    /\ exc' = [exc EXCEPT ![j] = e]
    /\ raisedAt' = [raisedAt EXCEPT ![j] = pc[j]]

\* An exception leaving a statement of _process_task: inside the try it is
\* caught and the failed update follows; inside the except handler it
\* leaves through the finally block.
Raise(j, e) ==
    IF pc[j] = "updFail"
    THEN /\ pc' = [pc EXCEPT ![j] = "fin"]
         /\ UNCHANGED <<uph, exc, raisedAt>>
    ELSE /\ pc' = [pc EXCEPT ![j] = "updFail"]
         /\ uph' = [uph EXCEPT ![j] = "load"]
         /\ exc' = [exc EXCEPT ![j] = e]
         /\ raisedAt' = [raisedAt EXCEPT ![j] = pc[j]]

Return(j) ==
    /\ pc' = [pc EXCEPT ![j] = AfterUpdate(pc[j])]
    /\ uph' = [uph EXCEPT ![j] = "load"]
    /\ UNCHANGED <<exc, raisedAt>>

----------------------------------------------------------------------------
\* (the test of the selected row left out)
RowMissingNever(j) == FALSE

\* _update_status, `if not db_task`: the select found no row for the job.
RowMissing(j) == task[j].status = Absent

\* create_task: the pending row is committed, then the pipeline is scheduled.
CreateTask(j) ==
    /\ pc[j] = "idle"
    /\ task' = [task EXCEPT ![j] = [status |-> "pending", progress |-> 0, error |-> NoneV]]
    /\ pc' = [pc EXCEPT ![j] = "upd5"]
    /\ UNCHANGED <<cfgVars, details, hubVars, uph, exc, raisedAt, lastBucket, callbacks, intra,
                   localResults, tmpdir, streamVars>>

\* (the insert failed and the pipeline is scheduled all the same)
CreateTaskErrorStillEnqueues(j) ==
    /\ pc[j] = "idle"
    /\ pc' = [pc EXCEPT ![j] = "upd5"]
    /\ UNCHANGED <<cfgVars, dbVars, hubVars, uph, exc, raisedAt, lastBucket, callbacks,
                   intra, localResults, tmpdir, streamVars>>

\* create_task, the insert or its commit raises: session_scope rolls back,
\* the except clause turns the exception into the error response and
\* enqueue is never reached.
CreateTaskError(j) ==
    /\ pc[j] = "idle"
    /\ pc' = [pc EXCEPT ![j] = "rejected"]
    /\ UNCHANGED <<cfgVars, dbVars, hubVars, uph, exc, raisedAt, lastBucket, callbacks,
                   intra, localResults, tmpdir, streamVars>>

\* _update_status awaited by the pipeline: the row is selected.
UpdateLoad(j) ==
    /\ pc[j] \in UpdatePcs
    /\ uph[j] = "load"
    /\ IF RowMissing(j)
       THEN Return(j)
       ELSE /\ uph' = [uph EXCEPT ![j] = "commit"]
            /\ UNCHANGED <<pc, exc, raisedAt>>
    /\ UNCHANGED <<cfgVars, dbVars, hubVars, lastBucket, callbacks, intra, localResults,
                   tmpdir, streamVars>>

\* ... the transaction commits and the message is published.
UpdateCommit(j) ==
    /\ pc[j] \in UpdatePcs
    /\ uph[j] = "commit"
    /\ task[j].status # Absent
    /\ LET a == UpdateArgs(pc[j], exc[j])
           row == ApplyFields(task[j], a)
       IN  /\ task' = [task EXCEPT ![j] = row]
           /\ Publish(j, BuildMessage(j, row, a))
    /\ Return(j)
    /\ UNCHANGED <<cfgVars, details, subscribers, lastBucket, callbacks, intra,
                   localResults, tmpdir, streamVars>>

\* ... the durable store raises: session_scope rolls back and re-raises.
UpdateStoreError(j) ==
    /\ pc[j] \in UpdatePcs
    /\ uph[j] = "commit"
    /\ Raise(j, DbError)
    /\ UNCHANGED <<cfgVars, dbVars, hubVars, lastBucket, callbacks, intra, localResults,
                   tmpdir, streamVars>>

\* ... the transaction commits, then resolve_file_url raises.
UpdateBuildError(j) ==
    /\ pc[j] \in UpdatePcs
    /\ uph[j] = "commit"
    /\ task[j].status # Absent
    /\ BuildCallsObjectStore(j)
    /\ task' = [task EXCEPT ![j] = ApplyFields(task[j], UpdateArgs(pc[j], exc[j]))]
    /\ Raise(j, UrlError)
    /\ UNCHANGED <<cfgVars, details, hubVars, lastBucket, callbacks, intra, localResults,
                   tmpdir, streamVars>>

\* download_media starts in the worker thread: workdir.mkdir.
DownloadBegin(j) ==
    /\ pc[j] = "dl"
    /\ pc' = [pc EXCEPT ![j] = "dl1"]
    /\ tmpdir' = [tmpdir EXCEPT ![j] = TRUE]
    /\ UNCHANGED <<cfgVars, dbVars, hubVars, uph, exc, raisedAt, lastBucket, callbacks, intra,
                   localResults, streamVars>>

\* (a _notify that lets every callback through)
SuppressedNever(j) == lastBucket[j] < -1

\* _notify, `if last_bucket != -1: return`.
Suppressed(j) == lastBucket[j] # -1

\* _notify called by the download with a progress value (once by
\* _download_http, on every "downloading" hook by _download_youtube): the
\* first call schedules the update on the loop, a later one returns.
Notify(j) ==
    /\ pc[j] = "dl1"
    /\ callbacks[j] < MaxCallbacks
    /\ callbacks' = [callbacks EXCEPT ![j] = @ + 1]
    /\ IF Suppressed(j)
          THEN UNCHANGED <<lastBucket, intra>>
          ELSE /\ lastBucket' = [lastBucket EXCEPT ![j] = 0]
               /\ intra' = [intra EXCEPT ![j] = "load"]
    /\ UNCHANGED <<cfgVars, dbVars, hubVars, pc, uph, exc, raisedAt, localResults,
                   tmpdir, streamVars>>

\* A stage run by asyncio.to_thread returns.
StageReturn(j) ==
    /\ pc[j] \in {"dl1", "ex", "tr"}
    /\ pc' = [pc EXCEPT ![j] = CASE pc[j] = "dl1" -> "upd25"
                                 [] pc[j] = "ex"  -> "upd50"
                                 [] pc[j] = "tr"  -> "upd80"]
    /\ callbacks' = [callbacks EXCEPT ![j] = 0]
    /\ UNCHANGED <<cfgVars, dbVars, hubVars, uph, exc, raisedAt, lastBucket, intra,
                   localResults, tmpdir, streamVars>>

\* Render and store, local: the result is kept in _local_results.
StoreLocal(j) ==
    /\ pc[j] = "store"
    /\ strategy = "local"
    /\ localResults' = [localResults EXCEPT ![j] = TRUE]
    /\ pc' = [pc EXCEPT ![j] = "upd100"]
    /\ UNCHANGED <<cfgVars, dbVars, hubVars, uph, exc, raisedAt, lastBucket, callbacks, intra,
                   tmpdir, streamVars>>

\* Render and store, otherwise: upload_result_file returns.
StoreUpload(j) ==
    /\ pc[j] = "store"
    /\ strategy # "local"
    /\ pc' = [pc EXCEPT ![j] = "ins"]
    /\ UNCHANGED <<cfgVars, dbVars, hubVars, uph, exc, raisedAt, lastBucket, callbacks, intra,
                   localResults, tmpdir, streamVars>>

\* _insert_detail commits the detail row (which references the job's row).
InsertDetail(j) ==
    /\ pc[j] = "ins"
    /\ task[j].status # Absent
    /\ details' = [details EXCEPT ![j] = @ + 1]
    /\ pc' = [pc EXCEPT ![j] = "upd100"]
    /\ UNCHANGED <<cfgVars, task, hubVars, uph, exc, raisedAt, lastBucket, callbacks, intra,
                   localResults, tmpdir, streamVars>>

\* A stage raises (download, extract, transcribe, write/upload), or
\* _insert_detail does.
StageRaise(j, e) ==
    /\ \/ pc[j] \in {"dl1", "ex", "tr", "store"} /\ e \in StageErrors
       \/ pc[j] = "ins" /\ e = DbError
    /\ Raise(j, e)
    /\ callbacks' = [callbacks EXCEPT ![j] = 0]
    /\ UNCHANGED <<cfgVars, dbVars, hubVars, lastBucket, intra, localResults,
                   tmpdir, streamVars>>

\* (the directory left in place whatever the setting)
RemoveTreeNever(j) == tmpdir

\* `if settings.CLEAN_TMP_FILE and temp_root.exists(): shutil.rmtree(...)`
RemoveTree(j) == [tmpdir EXCEPT ![j] = IF cleanTmp THEN FALSE ELSE @]

\* The finally block: rmtree of temp_root, then _cleanup_subscribers.
Finally(j) ==
    /\ pc[j] = "fin"
    /\ tmpdir' = RemoveTree(j)
    /\ subscribers' = CleanupSubscribers(j)
    /\ pc' = [pc EXCEPT ![j] = "done"]
    /\ UNCHANGED <<cfgVars, dbVars, queue, published, uph, exc, raisedAt, lastBucket, callbacks,
                   intra, localResults, streamVars>>

----------------------------------------------------------------------------
\* The _update_status coroutine scheduled by _notify (its future is dropped,
\* so whatever it raises goes nowhere).
IntraLoad(j) ==
    /\ intra[j] = "load"
    /\ intra' = [intra EXCEPT ![j] = IF RowMissing(j) THEN "done" ELSE "commit"]
    /\ UNCHANGED <<cfgVars, dbVars, hubVars, pc, uph, exc, raisedAt, lastBucket, callbacks,
                   localResults, tmpdir, streamVars>>

IntraCommit(j) ==
    /\ intra[j] = "commit"
    /\ task[j].status # Absent
    /\ LET row == ApplyFields(task[j], NotifyArgs)
       IN  /\ task' = [task EXCEPT ![j] = row]
           /\ Publish(j, BuildMessage(j, row, NotifyArgs))
    /\ intra' = [intra EXCEPT ![j] = "done"]
    /\ UNCHANGED <<cfgVars, details, subscribers, pc, uph, exc, raisedAt, lastBucket, callbacks,
                   localResults, tmpdir, streamVars>>

IntraStoreError(j) ==
    /\ intra[j] = "commit"
    /\ intra' = [intra EXCEPT ![j] = "done"]
    /\ UNCHANGED <<cfgVars, dbVars, hubVars, pc, uph, exc, raisedAt, lastBucket, callbacks,
                   localResults, tmpdir, streamVars>>

IntraBuildError(j) ==
    /\ intra[j] = "commit"
    /\ task[j].status # Absent
    /\ BuildCallsObjectStore(j)
    /\ task' = [task EXCEPT ![j] = ApplyFields(task[j], NotifyArgs)]
    /\ intra' = [intra EXCEPT ![j] = "done"]
    /\ UNCHANGED <<cfgVars, details, hubVars, pc, uph, exc, raisedAt, lastBucket, callbacks,
                   localResults, tmpdir, streamVars>>

----------------------------------------------------------------------------
\* The row of the job is deleted by another client of the database while
\* the job is in flight (a row that no detail row references).  An update
\* that had selected the row before finds nothing to update at its flush,
\* which is an error of the store.
DeleteRow(j) ==
    /\ task[j].status # Absent
    /\ details[j] = 0
    /\ pc[j] # "done"
    /\ task' = [task EXCEPT ![j] = [status |-> Absent, progress |-> 0, error |-> NoneV]]
    /\ UNCHANGED <<cfgVars, details, hubVars, runVars, streamVars>>

----------------------------------------------------------------------------
\* sse_stream.  Positions: "fetch" awaits fetch_task_with_details, "y0" is
\* suspended at the yield of the initial event, "get" awaits queue.get(),
\* "y1" is suspended at the yield of a terminal message inside the loop
\* (at the yield of any other message the generator is, for every step that
\* can follow, where "get" is: inside the try, about to await queue.get()),
\* "done" has returned, "raised" has ended with an exception,
\* "closed" was closed by its consumer.

\* (the test with "failed" left out of the set)
IsTerminalMessageCompletedOnly(m) == m.status = "completed"

\* the test `status in {"completed", "failed"}` of sse_stream
IsTerminalMessage(m) == m.status \in Terminal

\* The initial event, built from the row and the details just read.
SnapshotMessage(j) ==
    [status   |-> task[j].status,
     progress |-> task[j].progress,
     message  |-> IF task[j].status = "failed" THEN task[j].error ELSE "current",
     files    |-> FetchDetails(j)]

Last(q) == q[Len(q)]

\* stream_task found the job; sse_stream subscribes and starts the read.
\* (Sessions are taken in order of their number.)
StreamOpen(s, j) ==
    /\ spc[s] = "idle"
    /\ \A t \in Streams : t < s => spc[t] # "idle"
    /\ task[j].status # Absent
    /\ subscribers' = Subscribe(j, s)
    /\ sjob' = [sjob EXCEPT ![s] = j]
    /\ sopen' = [sopen EXCEPT ![s] = task[j].status]
    /\ spc' = [spc EXCEPT ![s] = "fetch"]
    /\ UNCHANGED <<cfgVars, dbVars, queue, published, runVars, emitted>>

\* The read returns; the initial event is yielded when the row exists.
StreamSnapshot(s) ==
    /\ spc[s] = "fetch"
    /\ IF task[sjob[s]].status # Absent
       THEN /\ emitted' = [emitted EXCEPT ![s] = Append(@, SnapshotMessage(sjob[s]))]
            /\ spc' = [spc EXCEPT ![s] = "y0"]
       ELSE /\ spc' = [spc EXCEPT ![s] = "get"]
            /\ UNCHANGED emitted
    /\ UNCHANGED <<cfgVars, dbVars, hubVars, runVars, sjob, sopen>>

\* The read raises (the durable store is unavailable), or building the
\* initial event does (resolve_file_url is called for every result file,
\* whatever the storage strategy): the exception leaves the generator before
\* its try block, so nothing is cleaned up.
StreamFetchError(s) ==
    /\ spc[s] = "fetch"
    /\ spc' = [spc EXCEPT ![s] = "raised"]
    /\ UNCHANGED <<cfgVars, dbVars, hubVars, runVars, sjob, sopen, emitted>>

StreamBuildError(s) ==
    /\ spc[s] = "fetch"
    /\ task[sjob[s]].status # Absent
    /\ FetchDetails(sjob[s]) > 0
    /\ spc' = [spc EXCEPT ![s] = "raised"]
    /\ UNCHANGED <<cfgVars, dbVars, hubVars, runVars, sjob, sopen, emitted>>

\* The consumer asks for the next item after the initial event.
StreamAfterSnapshot(s) ==
    /\ spc[s] = "y0"
    /\ IF IsTerminalMessage(Last(emitted[s]))
       THEN /\ subscribers' = CleanupSubscribers(sjob[s])
            /\ spc' = [spc EXCEPT ![s] = "done"]
       ELSE /\ spc' = [spc EXCEPT ![s] = "get"]
            /\ UNCHANGED subscribers
    /\ UNCHANGED <<cfgVars, dbVars, queue, published, runVars, sjob, sopen, emitted>>

\* The loop: queue.get() returns a message, which is yielded; after a
\* message that is not terminal the generator goes round to queue.get()
\* again when the consumer asks for the next item.
StreamGet(s) ==
    /\ spc[s] = "get"
    /\ queue[s] # <<>>
    /\ emitted' = [emitted EXCEPT ![s] = Append(@, Head(queue[s]))]
    /\ queue' = [queue EXCEPT ![s] = Tail(@)]
    /\ spc' = [spc EXCEPT ![s] = IF IsTerminalMessage(Head(queue[s])) THEN "y1" ELSE "get"]
    /\ UNCHANGED <<cfgVars, dbVars, subscribers, published, runVars, sjob, sopen>>

\* The consumer asks for the next item after a terminal message: the loop
\* breaks and the finally block cleans up.
StreamAfterEvent(s) ==
    /\ spc[s] = "y1"
    /\ subscribers' = CleanupSubscribers(sjob[s])
    /\ spc' = [spc EXCEPT ![s] = "done"]
    /\ UNCHANGED <<cfgVars, dbVars, queue, published, runVars, sjob, sopen, emitted>>

\* The consumer goes away: the generator is closed where it is suspended.
\* Only the loop is inside the try/finally.
StreamDisconnect(s) ==
    /\ spc[s] \in {"fetch", "y0", "get", "y1"}
    /\ subscribers' = IF spc[s] \in {"get", "y1"} THEN CleanupSubscribers(sjob[s])
                                                  ELSE subscribers
    /\ spc' = [spc EXCEPT ![s] = "closed"]
    /\ UNCHANGED <<cfgVars, dbVars, queue, published, runVars, sjob, sopen, emitted>>

----------------------------------------------------------------------------
Init ==
    /\ strategy \in {"local", "minio"}
    /\ cleanTmp \in BOOLEAN
    /\ task = [j \in Jobs |-> [status |-> Absent, progress |-> 0, error |-> NoneV]]
    /\ details = [j \in Jobs |-> 0]
    /\ localResults = [j \in Jobs |-> FALSE]
    /\ tmpdir = [j \in Jobs |-> FALSE]
    /\ subscribers = [j \in Jobs |-> <<>>]
    /\ queue = [s \in Streams |-> <<>>]
    /\ pc = [j \in Jobs |-> "idle"]
    /\ uph = [j \in Jobs |-> "load"]
    /\ exc = [j \in Jobs |-> NoneV]
    /\ raisedAt = [j \in Jobs |-> NoneV]
    /\ lastBucket = [j \in Jobs |-> -1]
    /\ callbacks = [j \in Jobs |-> 0]
    /\ intra = [j \in Jobs |-> "none"]
    /\ published = [j \in Jobs |-> <<>>]
    /\ spc = [s \in Streams |-> "idle"]
    /\ sjob = [s \in Streams |-> CHOOSE j \in Jobs : TRUE]
    /\ sopen = [s \in Streams |-> Absent]
    /\ emitted = [s \in Streams |-> <<>>]

\* The steps of a pipeline run in which nothing raises.
PipelineStep(j) ==
    \/ UpdateLoad(j)
    \/ UpdateCommit(j)
    \/ DownloadBegin(j)
    \/ StageReturn(j)
    \/ StoreLocal(j)
    \/ StoreUpload(j)
    \/ InsertDetail(j)
    \/ Finally(j)

\* The steps in which a stage, the durable store or the object store raises.
PipelineRaise(j) ==
    \/ UpdateStoreError(j)
    \/ UpdateBuildError(j)
    \/ \E e \in StageErrors \cup {DbError} : StageRaise(j, e)

IntraStep(j) ==
    \/ IntraLoad(j)
    \/ IntraCommit(j)

IntraRaise(j) ==
    \/ IntraStoreError(j)
    \/ IntraBuildError(j)

StreamStep(s) ==
    \/ StreamSnapshot(s)
    \/ StreamAfterSnapshot(s)
    \/ StreamGet(s)
    \/ StreamAfterEvent(s)

StreamRaise(s) ==
    \/ StreamFetchError(s)
    \/ StreamBuildError(s)

Next ==
    \/ \E j \in 1..MaxJobs : CreateTask(j)
    \/ \E j \in 1..MaxJobs : CreateTaskError(j)
    \/ \E j \in 1..MaxJobs : PipelineStep(j)
    \/ \E j \in 1..MaxJobs : PipelineRaise(j)
    \/ \E j \in 1..MaxJobs : Notify(j)
    \/ \E j \in 1..MaxJobs : IntraStep(j)
    \/ \E j \in 1..MaxJobs : IntraRaise(j)
    \/ \E j \in 1..MaxJobs : DeleteRow(j)
    \/ \E s \in 1..MaxStreams, j \in 1..MaxJobs : StreamOpen(s, j)
    \/ \E s \in Streams : StreamStep(s)
    \/ \E s \in Streams : StreamRaise(s)
    \/ \E s \in Streams : StreamDisconnect(s)

Spec == Init /\ [][Next]_vars

\* The coordinator alone: the runs in which no stream is opened.
CoordNext ==
    \/ \E j \in 1..MaxJobs : CreateTask(j)
    \/ \E j \in 1..MaxJobs : CreateTaskError(j)
    \/ \E j \in 1..MaxJobs : PipelineStep(j)
    \/ \E j \in 1..MaxJobs : PipelineRaise(j)
    \/ \E j \in 1..MaxJobs : Notify(j)
    \/ \E j \in 1..MaxJobs : IntraStep(j)
    \/ \E j \in 1..MaxJobs : IntraRaise(j)
    \/ \E j \in 1..MaxJobs : DeleteRow(j)

CoordSpec == Init /\ [][CoordNext]_vars

\* The coordinator alone, the row never deleted by another client and
\* CLEAN_TMP_FILE on.
RunNext ==
    \/ \E j \in 1..MaxJobs : CreateTask(j)
    \/ \E j \in 1..MaxJobs : CreateTaskError(j)
    \/ \E j \in 1..MaxJobs : PipelineStep(j)
    \/ \E j \in 1..MaxJobs : PipelineRaise(j)
    \/ \E j \in 1..MaxJobs : Notify(j)
    \/ \E j \in 1..MaxJobs : IntraStep(j)
    \/ \E j \in 1..MaxJobs : IntraRaise(j)

RunInit == Init /\ cleanTmp

RunSpec == RunInit /\ [][RunNext]_vars

\* The coordinator alone with the row deleted by another client at any
\* moment, the download reporting no progress and CLEAN_TMP_FILE on.
DeleteNext ==
    \/ \E j \in 1..MaxJobs : CreateTask(j)
    \/ \E j \in 1..MaxJobs : PipelineStep(j)
    \/ \E j \in 1..MaxJobs : PipelineRaise(j)
    \/ \E j \in 1..MaxJobs : DeleteRow(j)

DeleteSpec == RunInit /\ [][DeleteNext]_vars

\* Runs in which nothing raises and the download reports no progress, with
\* HubStreams stream sessions.
HubNext ==
    \/ \E j \in 1..MaxJobs : CreateTask(j)
    \/ \E j \in 1..MaxJobs : PipelineStep(j)
    \/ \E s \in 1..HubStreams, j \in 1..MaxJobs : StreamOpen(s, j)
    \/ \E s \in Streams : StreamStep(s)
    \/ \E s \in Streams : StreamDisconnect(s)

\* (the temporary directory is cleaned: CLEAN_TMP_FILE is on)
HubInit == Init /\ cleanTmp

HubSpec == HubInit /\ [][HubNext]_vars

\* IsoJobs jobs side by side, each with one stream session (session j is
\* opened for job j), in runs in which nothing raises and the download
\* reports no progress; the client of the first session may go away at any
\* yield.
IsoNext ==
    \/ \E j \in 1..IsoJobs : CreateTask(j)
    \/ \E j \in 1..IsoJobs : PipelineStep(j)
    \/ \E j \in 1..IsoJobs : StreamOpen(j, j)
    \/ \E s \in Streams : StreamStep(s)
    \/ StreamDisconnect(1)

IsoSpec == HubInit /\ [][IsoNext]_vars

TypeOK ==
    /\ strategy \in {"local", "minio"}
    /\ cleanTmp \in BOOLEAN
    /\ \A j \in Jobs :
        /\ task[j].status \in {Absent, "pending", "processing", "completed", "failed"}
        /\ task[j].progress \in 0..100
        /\ details[j] \in 0..1
        /\ pc[j] \in UpdatePcs \cup {"idle", "rejected", "dl", "dl1", "ex", "tr", "store", "ins", "fin", "done"}
        /\ uph[j] \in {"load", "commit"}
        /\ lastBucket[j] \in {-1, 0}
        /\ callbacks[j] \in 0..MaxCallbacks
        /\ intra[j] \in {"none", "load", "commit", "done"}
        /\ Range(subscribers[j]) \subseteq Streams
    /\ \A s \in Streams :
        /\ spc[s] \in {"idle", "fetch", "y0", "get", "y1", "done", "raised", "closed"}
        /\ sjob[s] \in Jobs
        /\ sopen[s] \in {Absent, "pending", "processing", "completed", "failed"}

----------------------------------------------------------------------------
\* Properties.

TerminalIndexes(q) == {i \in DOMAIN q : q[i].status \in Terminal}

\* C1: once the durable status of a job is completed or failed, no step
\* changes it again (as long as the row exists).
TerminalStatusNeverChanges ==
    [][\A j \in Jobs :
          (task[j].status \in Terminal /\ task'[j].status # Absent)
          => task'[j].status = task[j].status]_vars

\* C2: at most one message with status completed or failed is ever
\* published for a job.
AtMostOneTerminalPublished ==
    \A j \in Jobs : Cardinality(TerminalIndexes(published[j])) <= 1

\* C3: a stream opened for a job whose pipeline reaches a terminal state
\* eventually yields a terminal event and returns, whatever the other
\* streams do.  Once the pipeline has finished nothing is published any
\* more, so a stream that then waits on queue.get() can only end that way
\* if a terminal message is already in its queue.
StreamWillEndWithTerminalEvent ==
    \A s \in Streams :
        ( /\ spc[s] = "get"
          /\ pc[sjob[s]] = "done"
          /\ task[sjob[s]].status \in Terminal )
        => \E i \in DOMAIN queue[s] : queue[s][i].status \in Terminal

\* C4: the step in which a stream returns or is closed by its consumer
\* leaves the queue of every other live stream of the job registered.
StreamLive(t) == spc[t] \in {"fetch", "y0", "get", "y1"}

StreamEndKeepsOtherSubscriptions ==
    [][\A s, t \in Streams :
          ( /\ s # t
            /\ StreamLive(s)
            /\ spc'[s] \in {"done", "closed"}
            /\ StreamLive(t)
            /\ sjob[t] = sjob[s]
            /\ t \in Range(subscribers[sjob[s]]) )
          => t \in Range(subscribers'[sjob[s]])]_vars

\* C5: in the events a stream has yielded, a terminal event is the last
\* one: none follows it, so there is at most one.
NothingAfterTerminalEvent ==
    \A s \in Streams :
        \A i \in DOMAIN emitted[s] :
            emitted[s][i].status \in Terminal => i = Len(emitted[s])

\* C5, its case: a stream has returned after forwarding a terminal event
\* while another message was still waiting in its queue.
TerminalForwardedWithMoreQueued ==
    \E s \in Streams :
        /\ spc[s] = "done"
        /\ Len(emitted[s]) >= 2
        /\ Last(emitted[s]).status \in Terminal
        /\ queue[s] # <<>>

\* C6: the messages published for a job carry strictly increasing progress
\* values, except that a failed message may come at any point; a failed
\* message is the last one.
PublishedProgressStrictlyIncreasing ==
    \A j \in Jobs :
        \A i, k \in DOMAIN published[j] :
            i < k =>
                /\ published[j][i].status # "failed"
                /\ published[j][k].status # "failed"
                      => published[j][i].progress < published[j][k].progress

\* C7: the progress values of the events a stream yields never decrease.
StreamProgressNonDecreasing ==
    \A s \in Streams :
        \A i, k \in DOMAIN emitted[s] :
            i < k => emitted[s][i].progress <= emitted[s][k].progress

\* C8: a row whose status is failed holds, as error_message, the message
\* of the error that made the pipeline fail.
FailedHasTriggeringMessage ==
    \A j \in Jobs : task[j].status = "failed" => task[j].error = exc[j]

\* C9: the progress of a row is 100 exactly when its status is completed.
ProgressHundredIffCompleted ==
    \A j \in Jobs :
        task[j].status # Absent =>
            (task[j].progress = 100 <=> task[j].status = "completed")

\* C10: however the write of an intermediate checkpoint (25, 50, 80) ends,
\* the pipeline goes on with the next stage.
IntermediateWriteNeverAborts ==
    [][\A j \in Jobs :
          (pc[j] \in {"upd25", "upd50", "upd80"} /\ uph[j] = "commit" /\ pc'[j] # pc[j])
          => pc'[j] = AfterUpdate(pc[j])]_vars

\* C11: an _update_status that finds no row for the job writes nothing,
\* publishes nothing and returns: the next step of the pipeline run that
\* awaits it is the one that follows the update.
MissingRowUpdateIsNoOp ==
    [][\A j \in Jobs :
          ( /\ pc[j] \in UpdatePcs
            /\ uph[j] = "load"
            /\ task[j].status = Absent
            /\ <<pc'[j], uph'[j]>> # <<pc[j], uph[j]>> )
          => /\ pc'[j] = AfterUpdate(pc[j])
             /\ task' = task
             /\ details' = details
             /\ published' = published
             /\ queue' = queue]_vars

\* C11, its case: the row went away after the first checkpoint, the
\* update after the download found none, and the run is at the next stage.
PipelineWentOnWithoutRow ==
    \E j \in Jobs :
        /\ pc[j] = "ex"
        /\ task[j].status = Absent
        /\ Len(published[j]) = 1
        /\ published[j][1].progress = 5

\* C12: the stages of a job run strictly in order, one at a time: a stage
\* is entered only from the successful end of what precedes it (download
\* after the first update, extract after the update that follows the
\* download, ...), and once an exception was caught no stage is entered.
StageOrder ==
    { <<"idle", "upd5">>, <<"upd5", "dl">>, <<"dl", "dl1">>, <<"dl1", "upd25">>,
      <<"upd25", "ex">>, <<"ex", "upd50">>, <<"upd50", "tr">>, <<"tr", "upd80">>,
      <<"upd80", "store">>, <<"store", "ins">>, <<"store", "upd100">>,
      <<"ins", "upd100">>, <<"upd100", "fin">>, <<"fin", "done">> }

AfterFailure == {"updFail", "fin", "done"}

StagesStrictlyInOrder ==
    /\ [](\A j \in Jobs : exc[j] # NoneV => pc[j] \in AfterFailure)
    /\ [][\A j \in Jobs :
            pc'[j] # pc[j] =>
                \/ <<pc[j], pc'[j]>> \in StageOrder
                \/ pc[j] = "idle" /\ pc'[j] = "rejected"
                \/ pc'[j] = "updFail"
                \/ pc[j] = "updFail" /\ pc'[j] = "fin"]_vars

\* C12, its case: the transcription raised after the download and the
\* extraction had returned, and the run has ended without storing anything.
RunEndedAfterTranscribeFailed ==
    \E j \in Jobs :
        /\ pc[j] = "done"
        /\ exc[j] = "X"
        /\ task[j].status = "failed"
        /\ task[j].progress = 50
        /\ details[j] = 0
        /\ ~localResults[j]

\* C13: the step that ends a pipeline run, on every path, leaves the job
\* without its working directory and without any registered queue.
RunEndLeavesNothingBehind ==
    [][\A j \in Jobs :
          (pc[j] = "fin" /\ pc'[j] = "done")
          => /\ ~tmpdir'[j]
             /\ subscribers'[j] = <<>>]_vars

\* C13, as the code has it: with CLEAN_TMP_FILE on, the step that ends a
\* pipeline run, on every path, leaves the job without its working
\* directory and without any registered queue; with it off, without any
\* registered queue.
RunEndCleansUpAsConfigured ==
    [][\A j \in Jobs :
          (pc[j] = "fin" /\ pc'[j] = "done")
          => /\ cleanTmp => ~tmpdir'[j]
             /\ subscribers'[j] = <<>>]_vars

\* C13, its case: the final write raised, and so did the failed write that
\* followed; the run has ended, the directory the download created is gone
\* and the stream that was registered, and still waits, is registered no
\* more.
RunEndedAfterFinalWriteRaised ==
    \E j \in Jobs :
        /\ pc[j] = "done"
        /\ cleanTmp
        /\ exc[j] = DbError
        /\ task[j].status = "processing"
        /\ task[j].progress = 80
        /\ ~tmpdir[j]
        /\ subscribers[j] = <<>>
        /\ \E s \in Streams : spc[s] = "get" /\ sjob[s] = j

\* C14: every job whose pipeline is started eventually has the durable
\* status completed or failed, whatever the streams do.  No step sets the
\* status after the run has ended, so: a run that has ended has left a row
\* that, if it still exists, has a terminal status.
EndedRunLeftTerminalStatus ==
    \A j \in Jobs :
        (pc[j] = "done" /\ task[j].status # Absent) => task[j].status \in Terminal

\* C15: a step that publishes a message for a job appends it, once, to the
\* queue of every stream registered for the job at that moment and leaves
\* every other queue as it is; a stream that has not subscribed yet has an
\* empty queue, so what was published before it registers never reaches it.
PublishReachesExactlyTheRegistered ==
    /\ [](\A s \in Streams : spc[s] = "idle" => queue[s] = <<>>)
    /\ [][\A j \in Jobs :
            Len(published'[j]) > Len(published[j]) =>
                /\ Len(published'[j]) = Len(published[j]) + 1
                /\ \A s \in Streams :
                      queue'[s] = IF s \in Range(subscribers[j])
                                  THEN Append(queue[s], Last(published'[j]))
                                  ELSE queue[s]]_vars

\* C15, its case: two streams registered for a job after its first message
\* was published and have yielded their initial event only; two more
\* messages were published since, and each queue holds exactly those two.
BothRegisteredQueuesHoldTheSame ==
    \E j \in Jobs :
        /\ Len(published[j]) = 3
        /\ Range(subscribers[j]) = {1, 2}
        /\ spc[1] = "get" /\ spc[2] = "get"
        /\ queue[1] = queue[2]
        /\ Len(queue[1]) = 2
        /\ Len(emitted[1]) = 1 /\ Len(emitted[2]) = 1
        /\ queue[1] = SubSeq(published[j], 2, 3)

\* What a stream has received through its queue, in order: the events it
\* has yielded after the initial one, then what still waits in its queue.
\* (In the runs of HubSpec the row exists whenever a stream reads it, so
\* the first event yielded is the initial one.)
Received(s) ==
    (IF emitted[s] = <<>> THEN <<>> ELSE Tail(emitted[s])) \o queue[s]

\* what a step added to what a stream has received
NewlyReceived(s) ==
    SubSeq(Received(s)', Len(Received(s)) + 1, Len(Received(s)'))

\* C16: two streams registered for the same job receive the same events in
\* the same order for as long as both are registered: no step reorders or
\* drops what a stream has received, and every step adds the same events,
\* in the same order, to both.
RegisteredStreamsReceiveTheSame ==
    [][/\ \A s \in Streams :
             SubSeq(Received(s)', 1, Len(Received(s))) = Received(s)
       /\ \A j \in Jobs : \A s, t \in Range(subscribers[j]) :
             NewlyReceived(s) = NewlyReceived(t)]_vars

\* C16, its case: two streams registered for a job received the same two
\* events; one has yielded both, the other has both waiting in its queue.
SameEventsOneForwardedOneQueued ==
    \E j \in Jobs :
        /\ Range(subscribers[j]) = {1, 2}
        /\ \E s, t \in {1, 2} :
              /\ spc[s] = "get" /\ spc[t] = "get"
              /\ Len(emitted[s]) = 3 /\ queue[s] = <<>>
              /\ Len(emitted[t]) = 1 /\ Len(queue[t]) = 2
              /\ Received(s) = Received(t)
              /\ Received(s)[1].progress < Received(s)[2].progress

\* C17: a stream opened for a job whose durable status was already
\* completed or failed yields exactly one event, the initial one carrying
\* that status, and then returns: it never yields a second event, never
\* goes into the loop that waits on its queue, never ends with an
\* exception, and when it has returned it has yielded that one event.
StreamOpenedAtTerminalYieldsOne ==
    \A s \in Streams :
        sopen[s] \in Terminal =>
            /\ Len(emitted[s]) <= 1
            /\ spc[s] \notin {"get", "y1", "raised"}
            /\ \A i \in DOMAIN emitted[s] : emitted[s][i].status = sopen[s]
            /\ spc[s] = "done" => Len(emitted[s]) = 1

\* C18: the step that opens a stream for a job whose durable status is
\* already completed or failed does not register a queue for the job, and
\* no later step of that stream does.
StreamOpenedAtTerminalNeverRegisters ==
    \A s \in Streams :
        sopen[s] \in Terminal => s \notin Range(subscribers[sjob[s]])

\* C19: when the download raised an error with message X, no result file
\* of the job ever exists, neither a detail row nor an in-memory local
\* result, and the run ends with the row failed and X as its
\* error_message.
DownloadFailureEndsFailedWithMessage ==
    \A j \in Jobs :
        (raisedAt[j] = "dl1" /\ exc[j] = "X") =>
            /\ details[j] = 0
            /\ ~localResults[j]
            /\ (pc[j] = "done" /\ task[j].status # Absent)
               => (task[j].status = "failed" /\ task[j].error = "X")

\* The checkpoint messages among those published: all but the one of the
\* intra-stage update.
Checkpoints(q) == SelectSeq(q, LAMBDA m : m.message # NotifyArgs.message)

ProgressAndStatus(q) == [i \in DOMAIN q |-> <<q[i].progress, q[i].status>>]

ExpectedCheckpoints ==
    << <<5, "processing">>, <<25, "processing">>, <<50, "processing">>,
       <<80, "processing">>, <<100, "completed">> >>

\* C20: in a run in which no stage and no write of the pipeline has raised
\* and the row exists, the checkpoint messages published so far are the
\* first ones of 5, 25, 50, 80 (processing), 100 (completed), in that
\* order; when the run has ended all five were published; and the message
\* with progress 100 lists a result file: the file was stored before.
CheckpointsInOrderResultFirst ==
    \A j \in Jobs :
        (exc[j] = NoneV /\ task[j].status # Absent) =>
            LET c == ProgressAndStatus(Checkpoints(published[j]))
            IN  /\ Len(c) <= Len(ExpectedCheckpoints)
                /\ c = SubSeq(ExpectedCheckpoints, 1, Len(c))
                /\ pc[j] = "done" => c = ExpectedCheckpoints
                /\ \A i \in DOMAIN published[j] :
                      published[j][i].progress = 100 =>
                          /\ published[j][i].files > 0
                          /\ details[j] > 0 \/ localResults[j]

\* C20, its case: a run in which nothing raised has ended; its five
\* checkpoint messages were published, and the message of the intra-stage
\* update among them.
CleanRunPublishedAllCheckpoints ==
    \E j \in Jobs :
        /\ pc[j] = "done"
        /\ exc[j] = NoneV
        /\ task[j].status = "completed"
        /\ Len(published[j]) = 6
        /\ Len(Checkpoints(published[j])) = 5
        /\ published[j][5].progress = 100

\* C21: a job that completes has exactly one result file; every message
\* published with status completed lists it exactly once, and so does the
\* state read once the row is completed, under either storage strategy.
CompletedListsResultFileOnce ==
    \A j \in Jobs :
        /\ \A i \in DOMAIN published[j] :
              published[j][i].status = "completed" => published[j][i].files = 1
        /\ task[j].status = "completed" => FetchDetails(j) = 1

\* C22: the pipeline of a job is started only in the step that commits its
\* pending row; when the insert fails the creation call ends with an
\* error, and then no row of the job exists and no step of a pipeline is
\* ever taken for it.
PipelineStartsOnlyAfterRowCommitted ==
    /\ [](\A j \in Jobs :
            pc[j] = "rejected" =>
                /\ task[j].status = Absent
                /\ published[j] = <<>>
                /\ ~tmpdir[j]
                /\ intra[j] = "none")
    /\ [][\A j \in Jobs :
            /\ (pc[j] = "idle" /\ pc'[j] # "idle") =>
                  \/ pc'[j] = "rejected" /\ task'[j].status = Absent
                  \/ pc'[j] = "upd5" /\ task'[j].status = "pending"
            /\ pc[j] = "rejected" => pc'[j] = "rejected"]_vars

\* C22, its case: the insert of a creation request failed.
CreationRejected ==
    \E j \in Jobs : pc[j] = "rejected" /\ task[j].status = Absent

\* C23: a final write that found the store unavailable once is made again
\* and takes effect.  A run that ended after a stage raised (so the only
\* write the store can have refused is the failed one, once) has left the
\* row failed; a run that ended after the store refused the completed
\* write has left the row completed.
FinalWriteTakesEffectAfterOneRefusal ==
    \A j \in Jobs :
        (pc[j] = "done" /\ task[j].status # Absent) =>
            /\ raisedAt[j] \in {"dl1", "ex", "tr", "store"}
                  => task[j].status = "failed"
            /\ (raisedAt[j] = "upd100" /\ exc[j] = DbError)
                  => task[j].status = "completed"

\* The positions of _process_task at which a stage is running or about to.
StagePcs == {"dl", "dl1", "ex", "tr", "store", "ins"}

\* C24: while a stage of a job is started or running and the row of the
\* job exists, its durable status is not pending: the write of processing
\* was committed before the download was invoked.
NoStageWhilePending ==
    \A j \in Jobs :
        (pc[j] \in StagePcs /\ task[j].status # Absent)
        => task[j].status # "pending"

\* C24, its case: the download is running and the row is processing at 5.
DownloadRunsWhileProcessing ==
    \E j \in Jobs :
        /\ pc[j] = "dl1"
        /\ task[j].status = "processing"
        /\ task[j].progress = 5

\* C25: the registrations of a job are removed once, by the finally block
\* of its pipeline run and by nothing else: a step that takes a queue out
\* of the registrations of a job is the step that ends its run.
RegistrationsRemovedOnlyByFinalizer ==
    [][\A j \in Jobs :
          Len(subscribers'[j]) < Len(subscribers[j])
          => (pc[j] = "fin" /\ pc'[j] = "done")]_vars

\* C26: at most one _update_status of a job is between its select and its
\* commit at any time: the update scheduled by _notify is never there
\* while the update the pipeline awaits is.
OneUpdateInProgress ==
    \A j \in Jobs :
        ~ ( /\ intra[j] = "commit"
            /\ pc[j] \in UpdatePcs
            /\ uph[j] = "commit" )

\* The arguments of the _update_status that commits in a step that changes
\* the row of a job: those of the call the pipeline awaits when the step
\* moves the pipeline on, else those of the call _notify scheduled.
CommittingArgs(j) ==
    IF pc'[j] # pc[j] THEN UpdateArgs(pc[j], exc[j]) ELSE NotifyArgs

\* C27: an _update_status changes only the fields it is given: without a
\* status the status stays, without a progress the progress stays (so a
\* failed update keeps the last progress), and error_message changes only
\* in a call with status failed and a message.
UpdateWritesOnlyGivenFields ==
    [][\A j \in Jobs :
          (task[j].status # Absent /\ task'[j].status # Absent /\ task'[j] # task[j])
          => LET a == CommittingArgs(j)
             IN  /\ ~Truthy(a.status) => task'[j].status = task[j].status
                 /\ Truthy(a.status) => task'[j].status = a.status
                 /\ a.progress = {} => task'[j].progress = task[j].progress
                 /\ a.progress # {} => task'[j].progress \in a.progress
                 /\ ~(a.status = "failed" /\ Truthy(a.message))
                       => task'[j].error = task[j].error]_vars

\* C27, its case: the failed update was committed after the download had
\* been recorded: the row is failed, with the message, at progress 25.
FailedUpdateKeptProgress ==
    \E j \in Jobs :
        /\ pc[j] = "fin"
        /\ task[j] = [status |-> "failed", progress |-> 25, error |-> "X"]

\* C28: a message is published only in a step that commits the write of
\* an _update_status, and it carries the status and the progress the row
\* has by that write; a step in which the write of the awaited update
\* fails (the pipeline moves on and the row is as before) publishes
\* nothing.
PublishedOnlyWithCommittedWrite ==
    [][\A j \in Jobs :
          /\ published'[j] # published[j] =>
                /\ task[j].status # Absent
                /\ task'[j] = ApplyFields(task[j], CommittingArgs(j))
                /\ Len(published'[j]) = Len(published[j]) + 1
                /\ Last(published'[j]).status = task'[j].status
                /\ Last(published'[j]).progress = task'[j].progress
          /\ ( /\ pc[j] \in UpdatePcs
               /\ uph[j] = "commit"
               /\ pc'[j] # pc[j]
               /\ task'[j] = task[j] ) => published'[j] = published[j]]_vars

\* C28, its case: the write of progress 50 was refused by the store; the
\* last message published is the one of progress 25, which the row has.
RefusedWritePublishedNothing ==
    \E j \in Jobs :
        /\ pc[j] = "updFail"
        /\ raisedAt[j] = "upd50"
        /\ exc[j] = DbError
        /\ task[j].progress = 25
        /\ Len(published[j]) = 2
        /\ Last(published[j]).progress = 25
        /\ Last(published[j]).status = task[j].status

\* The messages published for the job by the update _notify scheduled.
IntraPublished(j) ==
    {i \in 1..Len(published[j]) : published[j][i].message = NotifyArgs.message}

\* C29: however many times the download calls the progress callback, at
\* most one intra-stage update is scheduled and at most one is published:
\* only the first call schedules, and every later call leaves the
\* scheduled update, the row and the published messages as they are.
OneIntraUpdatePerStage ==
    /\ [](\A j \in Jobs : Cardinality(IntraPublished(j)) <= 1)
    /\ [][\A j \in Jobs :
            /\ (intra'[j] = "load" /\ intra[j] # "load") =>
                  /\ callbacks[j] = 0
                  /\ intra[j] = "none"
            /\ (callbacks'[j] = callbacks[j] + 1 /\ callbacks[j] >= 1) =>
                  /\ intra'[j] = intra[j]
                  /\ lastBucket'[j] = lastBucket[j]
                  /\ published'[j] = published[j]
                  /\ task'[j] = task[j]]_vars

\* C29, its case: the download has called the callback MaxCallbacks times
\* and the one update scheduled has published its message.
LaterCallbackSuppressed ==
    \E j \in Jobs :
        /\ pc[j] = "dl1"
        /\ callbacks[j] = MaxCallbacks
        /\ intra[j] = "done"
        /\ Cardinality(IntraPublished(j)) = 1

\* The stream sessions opened for the job.
SessionsOf(j) == {s \in Streams : spc[s] # "idle" /\ sjob[s] = j}

\* The step is one of the job: of its pipeline run, or of a stream session
\* opened (or being opened) for it.
StepOfJob(j) ==
    \/ pc'[j] # pc[j]
    \/ uph'[j] # uph[j]
    \/ \E s \in Streams :
          /\ sjob'[s] = j
          /\ spc'[s] # spc[s] \/ emitted'[s] # emitted[s]

\* C30: a step that is not one of the job (a publish, a cleanup, a removal
\* of the working directory, the opening or the end of a stream, all for
\* another job) leaves the job's registrations, the queues of its stream
\* sessions, its published messages, its row, its detail rows, its local
\* result and its working directory as they are.
OtherJobsStepsChangeNothing ==
    [][\A j \in Jobs :
          ~StepOfJob(j) =>
              /\ subscribers'[j] = subscribers[j]
              /\ \A s \in SessionsOf(j) : queue'[s] = queue[s]
              /\ published'[j] = published[j]
              /\ task'[j] = task[j]
              /\ details'[j] = details[j]
              /\ localResults'[j] = localResults[j]
              /\ tmpdir'[j] = tmpdir[j]]_vars

\* C30, its case: the run of one job has ended (it has published, removed
\* its directory and dropped its registrations) and its stream is over,
\* while another job is still processing with its registration, queued
\* events and working directory in place.
JobEndedNextToRunningJob ==
    \E j, k \in Jobs :
        /\ j # k
        /\ pc[j] = "done"
        /\ \E s \in SessionsOf(j) : spc[s] \in {"done", "closed"}
        /\ ~tmpdir[j]
        /\ task[k].status = "processing"
        /\ tmpdir[k]
        /\ \E s \in SessionsOf(k) :
              /\ subscribers[k] = <<s>>
              /\ Len(queue[s]) >= 2

\* C31: whenever the row of a job is failed, no result file exists for the
\* job: no detail row and no in-memory local result.
FailedJobHasNoResultFile ==
    \A j \in Jobs :
        task[j].status = "failed" => (details[j] = 0 /\ ~localResults[j])

\* C32: once the row of a job is completed or failed, its pipeline run has
\* ended and every stream session opened for it is over (it returned, its
\* consumer went away, or it ended with an exception), no queue is
\* registered for the job.
NoRegistrationOnceAllIsOver ==
    \A j \in Jobs :
        ( /\ task[j].status \in Terminal
          /\ pc[j] = "done"
          /\ \A s \in SessionsOf(j) : spc[s] \in {"done", "closed", "raised"} )
        => subscribers[j] = <<>>

\* The file the local result refers to: output_path = temp_root / filename,
\* so it exists as long as the directory of the job does.
LocalResultFileExists(j) == localResults[j] /\ tmpdir[j]

\* C33: under the local strategy, when a job is completed and its pipeline
\* run has ended (the finally block has run), the file its result refers
\* to exists.
LocalResultFileOutlivesCleanup ==
    \A j \in Jobs :
        ( /\ strategy = "local"
          /\ task[j].status = "completed"
          /\ pc[j] = "done" )
        => LocalResultFileExists(j)

====
